---- MODULE Spec2Model ----
(***************************************************************************)
(* A model of waterline-criteria: the in-memory WHERE / SORT / SKIP /      *)
(* LIMIT stages over tuples.  Every stage is a pure function, so each      *)
(* specification below draws the arguments of a call in its initial state  *)
(* and has one action per exported operation that applies it.              *)
(*                                                                         *)
(* JavaScript values are records of one shape, JsVal(t, n, s, e):          *)
(*   t  the type tag, n the numeric payload (numbers, booleans),           *)
(*   s  the characters of a string (a sequence of one-character strings),  *)
(*   e  the entries <<[key, val]>> of a dictionary or array, in order.     *)
(* Numbers are integers; a decimal string stands for a number only when    *)
(* its fraction digits are all zero (the input sets hold no other).        *)
(***************************************************************************)
EXTENDS Integers, Sequences, FiniteSets, TLC

VARIABLES pc, data, where, schema, comparator, value, matchString, valid, result,
          fields, numToSkip, limitTo

vars == <<pc, data, where, schema, comparator, value, matchString, valid, result,
          fields, numToSkip, limitTo>>

(***************************************************************************)
(* Bounds of the model.                                                    *)
(***************************************************************************)
MaxValueLen == 3
MaxPatternLen == 5
MaxData == 2
MaxList == 2
MaxSortData == 3

(***************************************************************************)
(* JavaScript values.                                                      *)
(***************************************************************************)
JsVal(t, n, s, e) == [t |-> t, n |-> n, s |-> s, e |-> e]
Undefined == JsVal("undefined", 0, <<>>, <<>>)
Null == JsVal("null", 0, <<>>, <<>>)
Bool(b) == JsVal("boolean", IF b THEN 1 ELSE 0, <<>>, <<>>)
Num(n) == JsVal("number", n, <<>>, <<>>)
Str(s) == JsVal("string", 0, s, <<>>)
Entry(k, v) == [key |-> k, val |-> v]
Arr(vs) == JsVal("array", 0, <<>>, [i \in 1..Len(vs) |-> Entry("", vs[i])])
Obj(es) == JsVal("object", 0, <<>>, es)

\* The outcome of a call: a returned value, or a thrown error.
Return(v) == [threw |-> FALSE, v |-> v]
Throw == [threw |-> TRUE, v |-> Undefined]
None == Return(Undefined)
ReturnBool(b) == Return(Bool(b))
True == ReturnBool(TRUE)
False == ReturnBool(FALSE)

isString(v) == v.t = "string"
isNumber(v) == v.t = "number"
isBoolean(v) == v.t = "boolean"
isUndefined(v) == v.t = "undefined"
isArray(v) == v.t = "array"
\* lodash.isobject: arrays and dictionaries, not null.
isObject(v) == v.t \in {"array", "object"}
\* No value of the model is a Date or a RegExp.
isDate(v) == v.t = "date"
isRegExp(v) == v.t = "regexp"

\* obj.hasOwnProperty(key) and obj[key] on a dictionary.
hasOwnProperty(obj, key) == \E i \in 1..Len(obj.e) : obj.e[i].key = key
Get(obj, key) ==
    IF hasOwnProperty(obj, key)
    THEN obj.e[CHOOSE i \in 1..Len(obj.e) : obj.e[i].key = key].val
    ELSE Undefined

(***************************************************************************)
(* Strings.                                                                *)
(***************************************************************************)
Digits == <<"0", "1", "2", "3", "4", "5", "6", "7", "8", "9">>
IsDigit(c) == \E d \in 1..Len(Digits) : Digits[d] = c
DigitValue(c) == (CHOOSE d \in 1..Len(Digits) : Digits[d] = c) - 1

\* UTF-16 code units of the characters the model uses.
CharCode(c) ==
    CASE c = " " -> 32 [] c = "%" -> 37 [] c = "*" -> 42 [] c = "," -> 44
      [] c = "-" -> 45 [] c = "." -> 46
      [] IsDigit(c) -> 48 + DigitValue(c)
      [] c = ":" -> 58
      [] c = "A" -> 65 [] c = "B" -> 66 [] c = "O" -> 79 [] c = "T" -> 84
      [] c = "X" -> 88 [] c = "Z" -> 90
      [] c = "[" -> 91 [] c = "\\" -> 92 [] c = "]" -> 93
      [] c = "a" -> 97 [] c = "b" -> 98 [] c = "c" -> 99 [] c = "d" -> 100
      [] c = "e" -> 101 [] c = "f" -> 102 [] c = "i" -> 105 [] c = "j" -> 106
      [] c = "l" -> 108 [] c = "n" -> 110 [] c = "o" -> 111 [] c = "r" -> 114
      [] c = "s" -> 115 [] c = "t" -> 116 [] c = "u" -> 117 [] c = "x" -> 120
      [] c = "z" -> 122

toLowerCaseChar(c) ==
    CASE c = "A" -> "a" [] c = "B" -> "b" [] c = "O" -> "o" [] c = "T" -> "t"
      [] c = "X" -> "x" [] c = "Z" -> "z"
      [] OTHER -> c
toLowerCase(s) == [i \in 1..Len(s) |-> toLowerCaseChar(s[i])]

\* a < b on two strings: lexicographic by code unit.
StringLess(a, b) ==
    \E i \in 1..(Len(a) + 1) :
        /\ i <= Len(b)
        /\ \A j \in 1..(i - 1) : a[j] = b[j]
        /\ (i = Len(a) + 1 \/ CharCode(a[i]) < CharCode(b[i]))

\* Number(value): [nan, n].
NaN == [nan |-> TRUE, n |-> 0]
Finite(n) == [nan |-> FALSE, n |-> n]

RECURSIVE DigitsValue(_)
DigitsValue(ds) ==
    IF ds = <<>> THEN 0
    ELSE 10 * DigitsValue(SubSeq(ds, 1, Len(ds) - 1)) + DigitValue(ds[Len(ds)])

\* StringToNumber on [-]digits[.digits]; the empty string is 0.  The fraction
\* digits of the model's strings are all zero, so the value is the integer part.
DecimalValue(int, frac) ==
    IF /\ \A i \in 1..Len(int) : IsDigit(int[i])
       /\ \A i \in 1..Len(frac) : IsDigit(frac[i])
       /\ Len(int) + Len(frac) > 0
    THEN Finite(DigitsValue(int))
    ELSE NaN

\* The digits before and after the first "." of body, which is at dot.
DecimalAt(body, dot) ==
    DecimalValue(SubSeq(body, 1, dot - 1), SubSeq(body, dot + 1, Len(body)))

UnsignedToNumber(body) ==
    DecimalAt(body, IF \E i \in 1..Len(body) : body[i] = "."
                    THEN CHOOSE i \in 1..Len(body) :
                            /\ body[i] = "."
                            /\ \A j \in 1..(i - 1) : body[j] # "."
                    ELSE Len(body) + 1)

Minus(r) == IF r.nan THEN NaN ELSE Finite(0 - r.n)

StringToNumber(s) ==
    IF s = <<>> THEN Finite(0)
    ELSE IF s[1] = "-" THEN Minus(UnsignedToNumber(Tail(s)))
    ELSE UnsignedToNumber(s)

RECURSIVE NatToString(_)
NatToString(n) ==
    IF n < 10 THEN <<Digits[n + 1]>>
    ELSE NatToString(n \div 10) \o <<Digits[(n % 10) + 1]>>

\* String(value), `${value}` and value.toString(): an array joins its
\* elements with commas (null and undefined as nothing), a dictionary is
\* "[object Object]".
RECURSIVE toString(_)
toString(v) ==
    CASE v.t = "string" -> v.s
      [] v.t = "number" ->
            IF v.n < 0 THEN <<"-">> \o NatToString(0 - v.n) ELSE NatToString(v.n)
      [] v.t = "boolean" ->
            IF v.n = 1 THEN <<"t", "r", "u", "e">> ELSE <<"f", "a", "l", "s", "e">>
      [] v.t = "null" -> <<"n", "u", "l", "l">>
      [] v.t = "undefined" -> <<"u", "n", "d", "e", "f", "i", "n", "e", "d">>
      [] v.t = "object" ->
            <<"[", "o", "b", "j", "e", "c", "t", " ", "O", "b", "j", "e", "c", "t", "]">>
      [] v.t = "array" ->
            IF v.e = <<>> THEN <<>>
            ELSE LET last == v.e[Len(v.e)].val
                     text == IF last.t \in {"null", "undefined"} THEN <<>> ELSE toString(last)
                 IN  IF Len(v.e) = 1 THEN text
                     ELSE toString(JsVal("array", 0, <<>>, SubSeq(v.e, 1, Len(v.e) - 1)))
                          \o <<",">> \o text

\* Number(value); an array is converted by way of its string.
Number(v) ==
    CASE v.t = "number" -> Finite(v.n)
      [] v.t = "boolean" -> Finite(v.n)
      [] v.t = "null" -> Finite(0)
      [] v.t \in {"string", "array"} -> StringToNumber(toString(v))
      [] OTHER -> NaN

(***************************************************************************)
(* Pattern matcher.                                                        *)
(***************************************************************************)
\* str.replace(/%%%/g, '%'): leftmost, non-overlapping.
RECURSIVE replaceEscapedPercent(_)
replaceEscapedPercent(s) ==
    IF Len(s) >= 3 /\ s[1] = "%" /\ s[2] = "%" /\ s[3] = "%"
    THEN <<"%">> \o replaceEscapedPercent(SubSeq(s, 4, Len(s)))
    ELSE IF s = <<>> THEN <<>>
    ELSE <<s[1]>> \o replaceEscapedPercent(Tail(s))

\* The characters escapeRegExp prefixes with a backslash.
RegExpSpecials == {"-", "[", "]", "/", "{", "}", "(", ")", "*", "+", "?", ".", "\\", "^", "$", "|"}

RECURSIVE escapeRegExp(_)
escapeRegExp(str) ==
    IF str = <<>> THEN <<>>
    ELSE (IF str[1] \in RegExpSpecials THEN <<"\\", str[1]>> ELSE <<str[1]>>)
         \o escapeRegExp(Tail(str))

\* The longest prefix of s without a percent sign: the group ([^%]*).
RECURSIVE notPercentRun(_)
notPercentRun(s) ==
    IF s = <<>> \/ s[1] = "%" THEN <<>> ELSE <<s[1]>> \o notPercentRun(Tail(s))

\* str.replace(/([^%]*)%([^%]*)/g, '$1.*$2'); text after the last match is kept.
RECURSIVE replaceWildcards(_)
replaceWildcards(s) ==
    LET g1 == notPercentRun(s)
        rest == SubSeq(s, Len(g1) + 1, Len(s))
    IN  IF rest = <<>> THEN s
        ELSE LET g2 == notPercentRun(Tail(rest))
             IN  g1 \o <<".", "*">> \o g2
                 \o replaceWildcards(SubSeq(rest, Len(g2) + 2, Len(rest)))

\* Whether the whole of str matches /^src$/i, for the sources sqlLikeMatch
\* builds: escaped characters, `.*`, and plain characters.
RECURSIVE regExpTest(_, _)
regExpTest(src, str) ==
    IF src = <<>> THEN str = <<>>
    ELSE IF src[1] = "\\"
    THEN /\ str # <<>>
         /\ toLowerCaseChar(str[1]) = toLowerCaseChar(src[2])
         /\ regExpTest(SubSeq(src, 3, Len(src)), Tail(str))
    ELSE IF src[1] = "." /\ Len(src) >= 2 /\ src[2] = "*"
    THEN \E k \in 0..Len(str) :
            regExpTest(SubSeq(src, 3, Len(src)), SubSeq(str, k + 1, Len(str)))
    ELSE /\ str # <<>>
         /\ toLowerCaseChar(str[1]) = toLowerCaseChar(src[1])
         /\ regExpTest(Tail(src), Tail(str))

sqlLikeMatch(val, pattern) ==
    IF isRegExp(pattern) THEN Throw
    ELSE IF ~isString(pattern) THEN Throw
    ELSE LET source == replaceWildcards(escapeRegExp(replaceEscapedPercent(pattern.s)))
         IN  IF isNumber(val) \/ isBoolean(val) \/ isString(val)
             THEN ReturnBool(regExpTest(source, toString(val)))
             ELSE False

\* `${matchString}%` and the like: the template converts matchString to a string.
checkStartsWith(val, pattern) == sqlLikeMatch(val, Str(toString(pattern) \o <<"%">>))
checkEndsWith(val, pattern) == sqlLikeMatch(val, Str(<<"%">> \o toString(pattern)))
checkContains(val, pattern) == sqlLikeMatch(val, Str(<<"%">> \o toString(pattern) \o <<"%">>))
checkLike(val, pattern) == sqlLikeMatch(val, pattern)

(***************************************************************************)
(* SpecLike: one call of a pattern check on drawn arguments.               *)
(***************************************************************************)
RECURSIVE StringsUpTo(_, _)
StringsUpTo(alphabet, n) ==
    IF n = 0 THEN {<<>>}
    ELSE LET shorter == StringsUpTo(alphabet, n - 1)
         IN  shorter \cup {Append(s, c) : s \in shorter, c \in alphabet}

ValueAlphabet == {"a", "b", "X", "%"}
PatternAlphabet == {"a", "b", "%"}
LikeValues == {Str(s) : s \in StringsUpTo(ValueAlphabet, MaxValueLen)}
              \cup {Num(1), Bool(TRUE), Null, Undefined}
LikePatterns == {Str(s) : s \in StringsUpTo(PatternAlphabet, MaxPatternLen)}
                \cup {Num(1), Bool(TRUE)}

InitLike ==
    /\ pc = "ready"
    /\ value \in LikeValues
    /\ matchString \in LikePatterns
    /\ data = Arr(<<>>)
    /\ where = Null
    /\ schema = Obj(<<>>)
    /\ comparator = Null
    /\ valid = "unchecked"
    /\ result = None
    /\ fields = Undefined
    /\ numToSkip = Undefined
    /\ limitTo = Undefined

CheckLike ==
    /\ pc = "ready"
    /\ pc' = "checkLike"
    /\ result' = checkLike(value, matchString)
    /\ UNCHANGED <<data, where, schema, comparator, value, matchString, valid,
                 fields, numToSkip, limitTo>>

CheckStartsWith ==
    /\ pc = "ready"
    /\ pc' = "checkStartsWith"
    /\ result' = checkStartsWith(value, matchString)
    /\ UNCHANGED <<data, where, schema, comparator, value, matchString, valid,
                 fields, numToSkip, limitTo>>

CheckEndsWith ==
    /\ pc = "ready"
    /\ pc' = "checkEndsWith"
    /\ result' = checkEndsWith(value, matchString)
    /\ UNCHANGED <<data, where, schema, comparator, value, matchString, valid,
                 fields, numToSkip, limitTo>>

CheckContains ==
    /\ pc = "ready"
    /\ pc' = "checkContains"
    /\ result' = checkContains(value, matchString)
    /\ UNCHANGED <<data, where, schema, comparator, value, matchString, valid,
                 fields, numToSkip, limitTo>>

NextLike == CheckLike \/ CheckStartsWith \/ CheckEndsWith \/ CheckContains

SpecLike == InitLike /\ [][NextLike]_vars

(***************************************************************************)
(* Comparator.                                                             *)
(***************************************************************************)
\* x == y, x < y and x <= y on operands that are strings or numbers, which is
\* what normalizeComparison returns.  A string meets a number as Number(string);
\* every comparison with NaN is false.
NumbersEqual(nx, ny) == ~nx.nan /\ ~ny.nan /\ nx.n = ny.n
NumbersLess(nx, ny) == ~nx.nan /\ ~ny.nan /\ nx.n < ny.n
NumbersLessOrEqual(nx, ny) == ~nx.nan /\ ~ny.nan /\ nx.n <= ny.n

looseEquals(x, y) ==
    IF isString(x) /\ isString(y) THEN x.s = y.s
    ELSE NumbersEqual(Number(x), Number(y))

lessThan(x, y) ==
    IF isString(x) /\ isString(y) THEN StringLess(x.s, y.s)
    ELSE NumbersLess(Number(x), Number(y))

lessThanOrEqual(x, y) ==
    IF isString(x) /\ isString(y) THEN ~StringLess(y.s, x.s)
    ELSE NumbersLessOrEqual(Number(x), Number(y))

\* The steps of normalizeComparison: null and undefined become '' (lines
\* 238-245), two strings are lower-cased (247-251), and what is no number is
\* converted to a string (263-270).
EmptyIfNil(v) == IF isUndefined(v) \/ v = Null THEN Str(<<>>) ELSE v

LowerCased(a, b) ==
    IF isString(a) /\ isString(b)
    THEN <<Str(toLowerCase(a.s)), Str(toLowerCase(b.s))>>
    ELSE <<a, b>>

Stringified(v) == IF ~isNumber(v) THEN Str(toString(v)) ELSE v

StringifiedBoth(x) == <<Stringified(x[1]), Stringified(x[2])>>

\* normalizeComparison without `b = ''` for a null or undefined b.
normalizeComparisonKeepsNullB(a, b) == StringifiedBoth(LowerCased(EmptyIfNil(a), b))

\* Prepare two values for comparison.  The model has no Date object, so the
\* isDate steps never apply.  The last step (two strings that both match
\* X_ISO_DATE are compared as times) is left to the string comparison: the
\* strings drawn are shorter than a date, and two strings that toISOString
\* made have one format, in which the order of the text is the order in time.
normalizeComparison(a, b) == StringifiedBoth(LowerCased(EmptyIfNil(a), EmptyIfNil(b)))

\* The comparison op of x[0] with x[1].
Compared(op, x) ==
    CASE op = "=" -> looseEquals(x[1], x[2])
      [] op = "!" -> ~looseEquals(x[1], x[2])
      [] op = ">" -> lessThan(x[2], x[1])
      [] op = ">=" -> lessThanOrEqual(x[2], x[1])
      [] op = "<" -> lessThan(x[1], x[2])
      [] op = "<=" -> lessThanOrEqual(x[1], x[2])

\* compare[op](a, b)
compare(op, a, b) == Compared(op, normalizeComparison(a, b))

(***************************************************************************)
(* Criteria evaluator.                                                     *)
(***************************************************************************)
validAttributes ==
    {"equals", "not", "greaterThan", "lessThan", "greaterThanOrEqual",
     "lessThanOrEqual", "<", "<=", "!", ">", ">=", "startsWith", "endsWith",
     "contains", "like"}

\* Whether this criteria is valid as an object inside of an attribute.
validSubAttrCriteria(c) ==
    /\ isObject(c)
    /\ \E attr \in validAttributes : hasOwnProperty(c, attr)

\* Whether this value can be parsed as a number: Math.pow(Number(value), 2) > 0.
SquareIsPositive(nv) == ~nv.nan /\ nv.n * nv.n > 0

isNumbery(v) == ~isDate(v) /\ SquareIsPositive(Number(v))

\* new Date(v).toISOString() for the schema type 'date': a RangeError on an
\* Invalid Date.  undefined and text that is no number are invalid dates; the
\* other values of the model are taken as milliseconds 0..999 after the epoch.
PadStart(ms) ==
    (IF Len(ms) = 1 THEN <<"0", "0">> ELSE IF Len(ms) = 2 THEN <<"0">> ELSE <<>>) \o ms

ISOStringOfTime(time) ==
    IF time.nan \/ time.n < 0 \/ time.n > 999 THEN Throw
    ELSE Return(Str(<<"1", "9", "7", "0", "-", "0", "1", "-", "0", "1", "T",
                      "0", "0", ":", "0", "0", ":", "0", "0", ".">>
                    \o PadStart(NatToString(time.n)) \o <<"Z">>))

toISOString(v) == ISOStringOfTime(Number(v))

\* matchFn(val, criterion), the function matchLiteral is given, named by its tag.
matchFn(fn, val, criterion) ==
    CASE fn = "startsWith" -> checkStartsWith(val, criterion)
      [] fn = "endsWith" -> checkEndsWith(val, criterion)
      [] fn = "contains" -> checkContains(val, criterion)
      [] fn = "like" -> checkLike(val, criterion)
      [] OTHER -> ReturnBool(compare(fn, val, criterion))

\* schema && schema[key] && schema[key].type, and the type is 'date'.
IsDateType(sch, key) ==
    /\ hasOwnProperty(sch, key)
    /\ isObject(Get(sch, key))
    /\ Get(Get(sch, key), "type") = Str(<<"d", "a", "t", "e">>)

\* Lines 321-325 on one of the two values.
DateParsed(isDateType, v) == IF isDateType THEN toISOString(v) ELSE Return(v)

\* Lines 329-333 on one of the two values.
Cast(numbery, v) == IF numbery THEN Num(Number(v).n) ELSE v

\* Lines 336-346 on the two values as they are after the casts.
MatchCast(hasKey, criterion, val, fn) ==
    IF ~hasKey THEN False
    ELSE IF isUndefined(criterion) THEN False
    ELSE matchFn(fn, val, criterion)

\* Lines 329-346 on the outcomes of the date conversions.
MatchParsed(hasKey, criterion, val, numbery, fn) ==
    MatchCast(hasKey, Cast(numbery, criterion), Cast(numbery, val), fn)

MatchDateParsed(hasKey, criterion, val, fn) ==
    IF val.threw \/ criterion.threw THEN Throw
    ELSE MatchParsed(hasKey, criterion.v, val.v, isNumbery(criterion.v) /\ isNumbery(val.v), fn)

matchLiteral(model, key, criterion, fn, sch) ==
    MatchDateParsed(hasOwnProperty(model, key),
                    DateParsed(IsDateType(sch, key), criterion),
                    DateParsed(IsDateType(sch, key), Get(model, key)), fn)

\* key.toLowerCase() on the keys of the model.
keyToLowerCase(key) ==
    CASE key \in {"OR", "Or"} -> "or"
      [] key \in {"AND", "And"} -> "and"
      [] key \in {"NOT", "Not"} -> "not"
      [] key \in {"LIKE", "Like"} -> "like"
      [] OTHER -> key

\* A falsy value: !criteria.
falsy(v) ==
    \/ v.t \in {"undefined", "null"}
    \/ v = Num(0)
    \/ v = Bool(FALSE)
    \/ v = Str(<<>>)

RECURSIVE matchSet(_, _, _, _), every(_, _, _, _, _), matchItem(_, _, _, _, _),
          matchOr(_, _, _), matchAnd(_, _, _), matchNot(_, _, _)

\* for (key in criteria) if (!checkLike(model[key], criteria[key])) return false
\* The outcome r of one entry, then that of the entries after it: a throw
\* or a mismatch ends the loop.
AndThen(r, rest) ==
    IF r.threw THEN Throw
    ELSE IF r = False THEN False
    ELSE rest

RECURSIVE matchLikeFrom(_, _, _)
matchLikeFrom(model, criteria, i) ==
    IF i > Len(criteria.e) THEN True
    ELSE AndThen(checkLike(Get(model, criteria.e[i].key), criteria.e[i].val),
                 matchLikeFrom(model, criteria, i + 1))

matchLike(model, criteria, sch) == matchLikeFrom(model, criteria, 1)

\* matchSet that has a null or empty criteria match nothing.
matchSetEmptyMatchesNothing(model, criteria, parentKey, sch) ==
    IF falsy(criteria) \/ criteria = Obj(<<>>) THEN False
    ELSE IF criteria.t = "object" THEN every(model, criteria, 1, parentKey, sch)
    ELSE IF isArray(criteria) THEN (IF criteria.e = <<>> THEN True ELSE Throw)
    ELSE IF isString(criteria) THEN Throw
    ELSE True

\* Match a model against each criterion in a criteria query.  The entries are
\* ANDed by lodash.every: a plain number or `true` has no entries, while the
\* elements of a non-empty array or string come with a numeric key, on which
\* matchItem throws.
matchSet(model, criteria, parentKey, sch) ==
    IF falsy(criteria) THEN True
    ELSE IF criteria.t = "object" THEN every(model, criteria, 1, parentKey, sch)
    ELSE IF isArray(criteria) THEN (IF criteria.e = <<>> THEN True ELSE Throw)
    ELSE IF isString(criteria) THEN Throw
    ELSE True

\* lodash.every from entry i on: stops at the first entry that does not match.
every(model, criteria, i, parentKey, sch) ==
    IF i > Len(criteria.e) THEN True
    ELSE AndThen(matchItem(model, criteria.e[i].key, criteria.e[i].val, parentKey, sch),
                 every(model, criteria, i + 1, parentKey, sch))

\* The outcomes of each(list, ...): every element is evaluated, and a throw
\* of any of them is the outcome; then the outcomes are counted.
AnyThrew(outcomes) == \E i \in 1..Len(outcomes) : outcomes[i].threw

SomeMatch(outcomes) ==
    IF AnyThrew(outcomes) THEN Throw
    ELSE ReturnBool(\E i \in 1..Len(outcomes) : outcomes[i] = True)

NoMismatch(outcomes) ==
    IF AnyThrew(outcomes) THEN Throw
    ELSE ReturnBool(~\E i \in 1..Len(outcomes) : outcomes[i] = False)

Negation(r) == IF r.threw THEN Throw ELSE ReturnBool(r = False)

\* matchOr that wants every disjunct to match.
matchOrWantsAll(model, disjuncts, sch) ==
    LET outcomes == [i \in 1..Len(disjuncts.e) |-> matchSet(model, disjuncts.e[i].val, "", sch)]
    IN  IF AnyThrew(outcomes) THEN Throw
        ELSE ReturnBool(\A i \in 1..Len(outcomes) : outcomes[i] = True)

\* The characters of a string are criteria on which matchSet throws.
matchOr(model, disjuncts, sch) ==
    IF isString(disjuncts) /\ disjuncts.s # <<>> THEN Throw
    ELSE SomeMatch([i \in 1..Len(disjuncts.e) |-> matchSet(model, disjuncts.e[i].val, "", sch)])

\* matchAnd whose outcome is that of the last conjunct.
matchAndLastDecides(model, conjuncts, sch) ==
    LET outcomes == [i \in 1..Len(conjuncts.e) |-> matchSet(model, conjuncts.e[i].val, "", sch)]
    IN  IF AnyThrew(outcomes) THEN Throw
        ELSE ReturnBool(outcomes = <<>> \/ outcomes[Len(outcomes)] = True)

matchAnd(model, conjuncts, sch) ==
    IF isString(conjuncts) /\ conjuncts.s # <<>> THEN Throw
    ELSE NoMismatch([i \in 1..Len(conjuncts.e) |-> matchSet(model, conjuncts.e[i].val, "", sch)])

\* matchNot without the negation.
matchNotUnnegated(model, criteria, sch) == matchSet(model, criteria, "", sch)

matchNot(model, criteria, sch) == Negation(matchSet(model, criteria, "", sch))

\* parentKey is "" where the source passes undefined.
matchItem(model, key, criterion, parentKey, sch) ==
    IF parentKey # ""
    THEN CASE key \in {"equals", "=", "equal"} -> matchLiteral(model, parentKey, criterion, "=", sch)
           [] key \in {"not", "!"} ->
                IF isArray(criterion)
                THEN ReturnBool(~\E i \in 1..Len(criterion.e) :
                                    compare("=", Get(model, parentKey), criterion.e[i].val))
                ELSE matchLiteral(model, parentKey, criterion, "!", sch)
           [] key \in {"greaterThan", ">"} -> matchLiteral(model, parentKey, criterion, ">", sch)
           [] key \in {"greaterThanOrEqual", ">="} -> matchLiteral(model, parentKey, criterion, ">=", sch)
           [] key \in {"lessThan", "<"} -> matchLiteral(model, parentKey, criterion, "<", sch)
           [] key \in {"lessThanOrEqual", "<="} -> matchLiteral(model, parentKey, criterion, "<=", sch)
           [] key = "startsWith" -> matchLiteral(model, parentKey, criterion, "startsWith", sch)
           [] key = "endsWith" -> matchLiteral(model, parentKey, criterion, "endsWith", sch)
           [] key = "contains" -> matchLiteral(model, parentKey, criterion, "contains", sch)
           [] key = "like" -> matchLiteral(model, parentKey, criterion, "like", sch)
           [] OTHER -> Throw
    ELSE IF keyToLowerCase(key) = "or" THEN matchOr(model, criterion, sch)
    ELSE IF keyToLowerCase(key) = "not" THEN matchNot(model, criterion, sch)
    ELSE IF keyToLowerCase(key) = "and" THEN matchAnd(model, criterion, sch)
    ELSE IF keyToLowerCase(key) = "like" THEN matchLike(model, criterion, sch)
    ELSE IF isArray(criterion)
    THEN ReturnBool(\E i \in 1..Len(criterion.e) :
                        compare("=", Get(model, key), criterion.e[i].val))
    ELSE IF isObject(criterion) /\ validSubAttrCriteria(criterion)
    THEN matchSet(model, criterion, key, sch)
    ELSE matchLiteral(model, key, criterion, "=", sch)

\* filter(data, where, schema): the tuples that match, in the order of data.
RECURSIVE SelectSeq2(_, _)
SelectSeq2(es, keep) ==
    IF es = <<>> THEN <<>>
    ELSE (IF keep[1] THEN <<es[1]>> ELSE <<>>) \o SelectSeq2(Tail(es), Tail(keep))

\* The tuples whose outcome is a match, unless an evaluation threw.
Matching(tuples, outcomes) ==
    IF AnyThrew(outcomes) THEN Throw
    ELSE Return(JsVal("array", 0, <<>>,
                      SelectSeq2(tuples.e, [i \in 1..Len(outcomes) |-> outcomes[i] = True])))

filter(tuples, criteria, sch) ==
    IF falsy(tuples) THEN Return(tuples)
    ELSE Matching(tuples, [i \in 1..Len(tuples.e) |->
                              matchSet(tuples.e[i].val, criteria, "", sch)])

(***************************************************************************)
(* Clause validator.                                                       *)
(***************************************************************************)
PREDICATE_OPERATORS == {"or", "and"}
NIN_OPERATORS == {"!", "not"}
SUB_ATTR_MODIFIERS ==
    {"<", "lessThan", "<=", "lessThanOrEqual", ">", "greaterThan", ">=",
     "greaterThanOrEqual", "!", "not", "like", "contains", "startsWith", "endsWith"}
STRING_SEARCH_MODIFIERS == {"like", "contains", "startsWith", "endsWith"}

\* An equivalency filter: a primitive value (string, number, boolean or null).
isEqFilter(v) == v.t \in {"string", "number", "boolean", "null"}

\* Whether the sub-attribute dictionary rhs passes (lines 173-273).
validModifiers(rhs) ==
    /\ rhs.e # <<>>
    /\ \A i \in 1..Len(rhs.e) :
         LET subAttrModifierKey == rhs.e[i].key
             subFilter == rhs.e[i].val
         IN  /\ subAttrModifierKey \in SUB_ATTR_MODIFIERS
             /\ IF isArray(subFilter)
                THEN /\ subAttrModifierKey \in NIN_OPERATORS
                     /\ \A j \in 1..Len(subFilter.e) : isEqFilter(subFilter.e[j].val)
                ELSE IF subAttrModifierKey \in STRING_SEARCH_MODIFIERS
                THEN isString(subFilter) \/ isNumber(subFilter) \/ isBoolean(subFilter)
                ELSE isEqFilter(subFilter)

\* _recursiveStep(clause): TRUE when no entry of the clause is rejected.
RECURSIVE recursiveStep(_)
recursiveStep(clause) ==
    \A i \in 1..Len(clause.e) :
        LET key == clause.e[i].key
            rhs == clause.e[i].val
        IN  IF key \in PREDICATE_OPERATORS
            THEN /\ isArray(rhs)
                 /\ \A j \in 1..Len(rhs.e) :
                        /\ rhs.e[j].val.t = "object"
                        /\ recursiveStep(rhs.e[j].val)
            ELSE IF isArray(rhs)
            THEN \A j \in 1..Len(rhs.e) : isEqFilter(rhs.e[j].val)
            ELSE IF rhs.t = "object"
            THEN validModifiers(rhs)
            ELSE isEqFilter(rhs)

\* validateWhereClause(where): returns undefined, or throws.
validateWhereClause(clause) ==
    IF isUndefined(clause) THEN Throw
    ELSE IF clause.t # "object" THEN Throw
    ELSE IF recursiveStep(clause) THEN Return(Undefined) ELSE Throw

(***************************************************************************)
(* Spec: validateWhereClause and filter on a drawn where clause and data.  *)
(***************************************************************************)
RECURSIVE SeqsUpTo(_, _)
SeqsUpTo(S, n) ==
    IF n = 0 THEN {<<>>}
    ELSE LET shorter == SeqsUpTo(S, n - 1)
         IN  shorter \cup {Append(q, x) : q \in shorter, x \in S}

Dict1(k, v) == Obj(<<Entry(k, v)>>)
Dict2(k1, v1, k2, v2) == Obj(<<Entry(k1, v1), Entry(k2, v2)>>)

\* The tuples: flat dictionaries over the attributes a and b.
Tuples ==
    {Obj(<<>>), Dict1("a", Null), Dict1("a", Num(1)), Dict1("a", Num(2)),
     Dict1("a", Str(<<"A">>)), Dict2("a", Num(1), "b", Num(1))}

DataSets == {Arr(q) : q \in SeqsUpTo(Tuples, MaxData)}

\* Literals of IN and NOT-IN lists.
Lits == {Null, Num(0), Num(1), Str(<<"a">>)}

\* Criteria without a combinator.
Leaves ==
    {Obj(<<>>), Dict1("a", Num(1)), Dict1("a", Str(<<"a">>)),
     Dict2("a", Num(1), "b", Num(1)), Dict1("a", Dict1(">", Num(1)))}

\* Criteria of several entries.
Conjunctions ==
    {Dict2("a", Num(1), "b", Num(1)), Dict2("b", Num(1), "a", Str(<<"a">>)),
     Dict2("a", Dict1(">", Num(1)), "b", Num(1)),
     Dict2("a", Dict2(">", Num(0), "<", Num(2)), "b", Num(1)),
     Dict2("a", Num(1), "not", Dict1("b", Num(1))),
     Dict2("or", Arr(<<Dict1("a", Num(1)), Dict1("a", Num(2))>>), "b", Num(1))}

OrKeys == {"or", "OR"}
AndKeys == {"and", "And"}
NotKeys == {"not", "NOT", "Not"}

Lists == {Arr(q) : q \in SeqsUpTo(Leaves, MaxList)}
OrClauses == {Dict1(k, L) : k \in OrKeys, L \in Lists}
AndClauses == {Dict1(k, L) : k \in AndKeys, L \in Lists}
Negated ==
    Leaves \cup {Null}
    \cup {Dict1(k, Arr(q)) : k \in {"or", "and"}, q \in SeqsUpTo(Leaves, 1)}
    \cup {Dict1("not", Dict1("a", Num(1)))}
NotClauses == {Dict1(k, c) : k \in NotKeys, c \in Negated}

LitLists == {Arr(q) : q \in SeqsUpTo(Lits, MaxList)}
InClauses == {Dict1("a", L) : L \in LitLists}
NotInClauses == {Dict1("a", Dict1(k, L)) : k \in NIN_OPERATORS, L \in LitLists}

\* Right-hand sides of the string-search modifiers.
SearchOperands == {Str(<<"a">>), Str(<<"a", "%">>), Str(<<"1">>), Num(1), Bool(TRUE), Null}
SearchClauses ==
    {Dict1("a", Dict1(m, x)) : m \in STRING_SEARCH_MODIFIERS, x \in SearchOperands}
    \cup {Dict1("like", Dict1("a", Str(<<"a", "%">>))), Dict1("a", Dict1("equals", Num(1)))}

Wheres ==
    {Null} \cup Leaves \cup Conjunctions \cup OrClauses \cup AndClauses \cup NotClauses
    \cup InClauses \cup NotInClauses \cup SearchClauses

Init ==
    /\ pc = "ready"
    /\ data \in DataSets
    /\ where \in Wheres
    /\ schema = Obj(<<>>)
    /\ comparator = Null
    /\ value = Undefined
    /\ matchString = Undefined
    /\ valid = "unchecked"
    /\ result = None
    /\ fields = Undefined
    /\ numToSkip = Undefined
    /\ limitTo = Undefined

\* The caller checks the clause with validateWhereClause(where).
Validate ==
    /\ pc = "ready"
    /\ pc' = "validated"
    /\ valid' = IF validateWhereClause(where).threw THEN "rejected" ELSE "accepted"
    /\ UNCHANGED <<data, where, schema, comparator, value, matchString, result,
                 fields, numToSkip, limitTo>>

\* filter(data, where, schema); the engine does not validate the clause itself.
Filter ==
    /\ pc \in {"ready", "validated"}
    /\ pc' = "filtered"
    /\ result' = filter(data, where, schema)
    /\ UNCHANGED <<data, where, schema, comparator, value, matchString, valid,
                 fields, numToSkip, limitTo>>

Next == Validate \/ Filter

Spec == Init /\ [][Next]_vars

(***************************************************************************)
(* Sort stage.                                                             *)
(***************************************************************************)
GREATER_THAN == 1
LESS_THAN == -1
EQUAL == 0

\* The default `when`: `null` ranks lower than anything else.
rankSpecialCase(record, attrName) ==
    ~(isUndefined(Get(record, attrName)) \/ Get(record, attrName) = Null)

\* keyOutcome with the two special cases exchanged: null ranks higher.
keyOutcomeNullRanksHigher(a, b, attrName) ==
    LET ra == rankSpecialCase(a, attrName)
        rb == rankSpecialCase(b, attrName)
    IN  IF ~ra /\ ~rb THEN EQUAL
        ELSE IF ~ra /\ rb THEN GREATER_THAN
        ELSE IF ra /\ ~rb THEN LESS_THAN
        ELSE IF lessThan(Get(a, attrName), Get(b, attrName)) THEN LESS_THAN
        ELSE IF lessThan(Get(b, attrName), Get(a, attrName)) THEN GREATER_THAN
        ELSE EQUAL

\* The outcome of one sort key for the tuples a and b (lines 95-113).
keyOutcome(a, b, attrName) ==
    LET ra == rankSpecialCase(a, attrName)
        rb == rankSpecialCase(b, attrName)
    IN  IF ~ra /\ ~rb THEN EQUAL
        ELSE IF ~ra /\ rb THEN LESS_THAN
        ELSE IF ra /\ ~rb THEN GREATER_THAN
        ELSE IF lessThan(Get(a, attrName), Get(b, attrName)) THEN LESS_THAN
        ELSE IF lessThan(Get(b, attrName), Get(a, attrName)) THEN GREATER_THAN
        ELSE EQUAL

\* nextFlag that lets a later key overwrite the flag: -sortDirection || flagSoFar.
nextFlagLaterKeyWins(flagSoFar, outcome, sortDirection) ==
    IF outcome = LESS_THAN THEN 0 - sortDirection
    ELSE IF outcome = GREATER_THAN THEN sortDirection
    ELSE flagSoFar

\* What the reducer returns (lines 115-129): flagSoFar || -sortDirection, ...
nextFlag(flagSoFar, outcome, sortDirection) ==
    IF outcome = LESS_THAN
    THEN (IF flagSoFar # 0 THEN flagSoFar ELSE 0 - sortDirection)
    ELSE IF outcome = GREATER_THAN
    THEN (IF flagSoFar # 0 THEN flagSoFar ELSE sortDirection)
    ELSE flagSoFar

\* reduce(sortVector, ..., 0) from entry i on.
RECURSIVE reduceFrom(_, _, _, _, _)
reduceFrom(a, b, sortVector, i, flagSoFar) ==
    IF i > Len(sortVector.e) THEN flagSoFar
    ELSE reduceFrom(a, b, sortVector, i + 1,
                    nextFlag(flagSoFar,
                             keyOutcome(a, b, sortVector.e[i].key),
                             sortVector.e[i].val.n))

_compare(a, b, sortVector) == reduceFrom(a, b, sortVector, 1, 0)

\* Array.prototype.sort is stable: an element goes behind those that do not
\* compare greater.  (_compare is a consistent order on the tuples drawn.)
RECURSIVE insertSorted(_, _, _)
insertSorted(es, x, sortVector) ==
    IF es = <<>> THEN <<x>>
    ELSE IF _compare(es[Len(es)].val, x.val, sortVector) > 0
    THEN Append(insertSorted(SubSeq(es, 1, Len(es) - 1), x, sortVector), es[Len(es)])
    ELSE Append(es, x)

RECURSIVE arraySort(_, _)
arraySort(es, sortVector) ==
    IF es = <<>> THEN <<>>
    ELSE insertSorted(arraySort(SubSeq(es, 1, Len(es) - 1), sortVector), es[Len(es)], sortVector)

sortData(tuples, sortVector) == JsVal("array", 0, <<>>, arraySort(tuples.e, sortVector))

\* sort(data, comparator) with the default `when`; cloneDeep copies the data.
sort(tuples, sortVector) ==
    IF falsy(sortVector) \/ falsy(tuples) THEN Return(tuples)
    ELSE Return(sortData(tuples, sortVector))

(***************************************************************************)
(* SpecSort: one call of sort on drawn tuples and a drawn sort vector.     *)
(***************************************************************************)
\* A tuple {id, a, b}; an attribute drawn as undefined is left out.
Row(id, a, b) ==
    Obj(<<Entry("id", Num(id))>>
        \o (IF isUndefined(a) THEN <<>> ELSE <<Entry("a", a)>>)
        \o (IF isUndefined(b) THEN <<>> ELSE <<Entry("b", b)>>))

SortCells == {Undefined, Null, Num(1), Num(2)} \X {Null, Num(1)}
SortData ==
    {Arr([i \in 1..Len(q) |-> Row(i, q[i][1], q[i][2])]) : q \in SeqsUpTo(SortCells, MaxSortData)}

Directions == {Num(1), Num(0 - 1)}
SortVectors ==
    {Null, Obj(<<>>)}
    \cup {Dict1(k, d) : k \in {"a", "b"}, d \in Directions}
    \cup {Dict2("a", d1, "b", d2) : d1 \in Directions, d2 \in Directions}
    \cup {Dict2("b", d1, "a", d2) : d1 \in Directions, d2 \in Directions}

InitSort ==
    /\ pc = "ready"
    /\ data \in SortData
    /\ comparator \in SortVectors
    /\ where = Null
    /\ schema = Obj(<<>>)
    /\ value = Undefined
    /\ matchString = Undefined
    /\ valid = "unchecked"
    /\ result = None
    /\ fields = Undefined
    /\ numToSkip = Undefined
    /\ limitTo = Undefined

Sort ==
    /\ pc = "ready"
    /\ pc' = "sorted"
    /\ result' = sort(data, comparator)
    /\ UNCHANGED <<data, where, schema, comparator, value, matchString, valid,
                 fields, numToSkip, limitTo>>

NextSort == Sort

SpecSort == InitSort /\ [][NextSort]_vars

(***************************************************************************)
(* SpecNumeric: filter of one tuple {a: v} by a comparison of a with c,    *)
(* where v and c are numbers or numeric strings.                           *)
(***************************************************************************)
NumberLikes ==
    {Num(0), Num(2), Num(10), Num(0 - 1),
     Str(<<"0">>), Str(<<"0", ".", "0">>), Str(<<"2">>), Str(<<"2", ".", "0">>),
     Str(<<"1", "0">>), Str(<<"-", "1">>)}

ComparisonKeys ==
    {"equals", "!", "not", "<", "lessThan", "<=", "lessThanOrEqual",
     ">", "greaterThan", ">=", "greaterThanOrEqual"}

InitNumeric ==
    /\ pc = "ready"
    /\ \E v \in NumberLikes : data = Arr(<<Dict1("a", v)>>)
    /\ \E c \in NumberLikes :
          where \in {Dict1("a", c)} \cup {Dict1("a", Dict1(k, c)) : k \in ComparisonKeys}
    /\ schema = Obj(<<>>)
    /\ comparator = Null
    /\ value = Undefined
    /\ matchString = Undefined
    /\ valid = "unchecked"
    /\ result = None
    /\ fields = Undefined
    /\ numToSkip = Undefined
    /\ limitTo = Undefined

SpecNumeric == InitNumeric /\ [][Next]_vars

(***************************************************************************)
(* Properties of the sort stage (SpecSort).                                *)
(***************************************************************************)
Sorted == pc = "sorted" /\ comparator.t = "object"
Sorting(i) == result.v.e[i].val
SortKey(k) == comparator.e[k].key
SortDirection(k) == comparator.e[k].val.n
Id(t) == Get(t, "id").n

\* The value of the attribute is null or the attribute is absent.
Unranked(t, attrName) == ~hasOwnProperty(t, attrName) \/ Get(t, attrName) = Null

\* The two tuples do not differ on the key.
Tie(x, y, attrName) ==
    \/ Unranked(x, attrName) /\ Unranked(y, attrName)
    \/ /\ ~Unranked(x, attrName)
       /\ ~Unranked(y, attrName)
       /\ Get(x, attrName).n = Get(y, attrName).n

TiedBefore(x, y, k) == \A m \in 1..(k - 1) : Tie(x, y, SortKey(m))

\* C1 as the spec states it: for every sort key and both directions, among
\* tuples that tie on the earlier keys, no tuple whose value is null or absent
\* is placed before a tuple whose value is present (nulls last).
C1_NullsLastInBothDirections ==
    Sorted =>
        \A k \in 1..Len(comparator.e) : \A i \in 1..Len(result.v.e) : \A j \in (i + 1)..Len(result.v.e) :
            TiedBefore(Sorting(i), Sorting(j), k) =>
                ~(Unranked(Sorting(i), SortKey(k)) /\ ~Unranked(Sorting(j), SortKey(k)))

\* C1 (amended): null or absent ranks lower than every present value: among
\* tuples that tie on the earlier keys, an ascending key (1) places the tuples
\* without a value before those with one, a descending key (-1) after them.
C1_NullsRankLowest ==
    Sorted =>
        \A k \in 1..Len(comparator.e) : \A i \in 1..Len(result.v.e) : \A j \in (i + 1)..Len(result.v.e) :
            TiedBefore(Sorting(i), Sorting(j), k) =>
                /\ SortDirection(k) = 1 =>
                      ~(~Unranked(Sorting(i), SortKey(k)) /\ Unranked(Sorting(j), SortKey(k)))
                /\ SortDirection(k) = 0 - 1 =>
                      ~(Unranked(Sorting(i), SortKey(k)) /\ ~Unranked(Sorting(j), SortKey(k)))

\* The spec's example [{a:2},{a:null},{a:1}] sorted by {a: 1}: the null comes first.
C1_Witness ==
    /\ Sorted
    /\ comparator = Dict1("a", Num(1))
    /\ Len(data.e) = 3
    /\ Get(data.e[1].val, "a") = Num(2)
    /\ Get(data.e[2].val, "a") = Null
    /\ Get(data.e[3].val, "a") = Num(1)
    /\ [i \in 1..3 |-> Id(Sorting(i))] = <<2, 3, 1>>

\* x goes before y by the key alone: null or absent is the lowest value.
Below(x, y, attrName) ==
    \/ Unranked(x, attrName) /\ ~Unranked(y, attrName)
    \/ /\ ~Unranked(x, attrName)
       /\ ~Unranked(y, attrName)
       /\ Get(x, attrName).n < Get(y, attrName).n

\* The first key on which the tuples differ, 0 when they tie on every key.
FirstDifference(x, y) ==
    LET differ == {k \in 1..Len(comparator.e) : ~Tie(x, y, SortKey(k))}
    IN  IF differ = {} THEN 0 ELSE CHOOSE k \in differ : \A m \in differ : k <= m

\* C9: the result holds the tuples of the input, ordered lexicographically by
\* the keys in declared order: the first key on which two tuples differ decides
\* their order, flipped by its direction, and tuples that tie on every key keep
\* their input order.
C9_LexicographicAndStable ==
    Sorted =>
        /\ Len(result.v.e) = Len(data.e)
        /\ \A i \in 1..Len(data.e) : \E j \in 1..Len(result.v.e) : Sorting(j) = data.e[i].val
        /\ \A i \in 1..Len(result.v.e) : \A j \in (i + 1)..Len(result.v.e) :
              LET k == FirstDifference(Sorting(i), Sorting(j))
              IN  IF k = 0 THEN Id(Sorting(i)) < Id(Sorting(j))
                  ELSE IF SortDirection(k) = 1 THEN Below(Sorting(i), Sorting(j), SortKey(k))
                  ELSE Below(Sorting(j), Sorting(i), SortKey(k))

\* Two keys; one pair ties on both keys, another ties on the first key only and
\* is swapped by the second.
C9_Witness ==
    /\ Sorted
    /\ Len(comparator.e) = 2
    /\ Len(data.e) = 3
    /\ FirstDifference(data.e[1].val, data.e[3].val) = 0
    /\ FirstDifference(data.e[1].val, data.e[2].val) = 2
    /\ [i \in 1..3 |-> Id(Sorting(i))] = <<2, 1, 3>>

(***************************************************************************)
(* Properties of the pattern matcher (SpecLike).                           *)
(***************************************************************************)
\* SQL LIKE in which `%%%` is one literal percent sign and any other `%` a
\* run of zero or more characters; letters match in either case.
RECURSIVE likeWithEscape(_, _)
likeWithEscape(pattern, str) ==
    IF pattern = <<>> THEN str = <<>>
    ELSE IF Len(pattern) >= 3 /\ pattern[1] = "%" /\ pattern[2] = "%" /\ pattern[3] = "%"
    THEN /\ str # <<>>
         /\ str[1] = "%"
         /\ likeWithEscape(SubSeq(pattern, 4, Len(pattern)), Tail(str))
    ELSE IF pattern[1] = "%"
    THEN \E k \in 0..Len(str) : likeWithEscape(Tail(pattern), SubSeq(str, k + 1, Len(str)))
    ELSE /\ str # <<>>
         /\ toLowerCaseChar(str[1]) = toLowerCaseChar(pattern[1])
         /\ likeWithEscape(Tail(pattern), Tail(str))

\* C2: in a string pattern `%%%` denotes one literal percent character and a
\* single `%` any run of characters: like(value, pattern) succeeds exactly when
\* the value has a literal % where the pattern has `%%%`.
C2_EscapedPercentIsLiteral ==
    (pc = "checkLike" /\ isString(value) /\ isString(matchString)) =>
        result = ReturnBool(likeWithEscape(matchString.s, value.s))

(***************************************************************************)
(* Properties of the criteria evaluator (Spec, SpecNumeric).               *)
(***************************************************************************)
Filtered == pc = "filtered"
matches(t, c) == matchSet(t, c, "", schema)

\* The tuples of data that satisfy Test, in the order of data.
Selected(Test(_)) ==
    JsVal("array", 0, <<>>, SelectSeq(data.e, LAMBDA en : Test(en.val)))

\* The clause has the one entry {key: ...} with key among keys.
IsCombinator(keys) == where.t = "object" /\ Len(where.e) = 1 /\ where.e[1].key \in keys
Operand == where.e[1].val

\* C3: {not: c}, in any letter case of the key, keeps exactly the tuples that
\* c does not match.
C3_NotIsNegation ==
    (Filtered /\ IsCombinator({"not", "NOT", "Not"})) =>
        result = Return(Selected(LAMBDA t : matches(t, Operand) = False))

C3_Witness ==
    /\ Filtered
    /\ IsCombinator({"NOT"})
    /\ Operand # Null
    /\ Len(data.e) = 2
    /\ Len(result.v.e) = 1

\* C4: {or: L} keeps exactly the tuples that at least one element of L matches,
\* so none when L is empty.
C4_OrIsDisjunction ==
    (Filtered /\ IsCombinator({"or", "OR"})) =>
        result = Return(Selected(LAMBDA t :
                    \E i \in 1..Len(Operand.e) : matches(t, Operand.e[i].val) = True))

\* A tuple kept by the second disjunct alone, and one that no disjunct matches.
C4_Witness ==
    /\ Filtered
    /\ IsCombinator({"or"})
    /\ Len(Operand.e) = 2
    /\ Len(data.e) = 2
    /\ Len(result.v.e) = 1
    /\ matches(result.v.e[1].val, Operand.e[1].val) = False

\* C5: {and: L} keeps exactly the tuples that every element of L matches, all
\* of them when L is empty; a mapping of several entries keeps exactly the
\* tuples that each of its entries, taken alone, matches.
C5_AndIsConjunction ==
    /\ (Filtered /\ IsCombinator({"and", "And"})) =>
          result = Return(Selected(LAMBDA t :
                      \A i \in 1..Len(Operand.e) : matches(t, Operand.e[i].val) = True))
    /\ (Filtered /\ where.t = "object" /\ Len(where.e) >= 2) =>
          result = Return(Selected(LAMBDA t :
                      \A i \in 1..Len(where.e) : matches(t, Obj(<<where.e[i]>>)) = True))

\* A tuple that the first conjunct matches and the second does not is dropped.
C5_Witness ==
    /\ Filtered
    /\ IsCombinator({"and"})
    /\ Len(Operand.e) = 2
    /\ Len(data.e) = 2
    /\ Len(result.v.e) = 1
    /\ \E i \in 1..2 : /\ matches(data.e[i].val, Operand.e[1].val) = True
                       /\ matches(data.e[i].val, Operand.e[2].val) = False

\* C6: the criteria {} and null match every tuple: filter returns the tuples
\* of data, all of them, in the input order.
C6_EmptyCriteriaMatchAll ==
    (Filtered /\ (where = Null \/ where = Obj(<<>>))) => result = Return(data)

C6_Witness ==
    /\ Filtered
    /\ where = Null
    /\ Len(data.e) = 2
    /\ data.e[1] # data.e[2]
    /\ result = Return(data)

\* The clause is {a: c} or {a: {key: c}} with key a comparison modifier.
IsComparison ==
    /\ IsCombinator({"a"})
    /\ \/ Operand.t \in {"number", "string"}
       \/ Operand.t = "object" /\ Len(Operand.e) = 1 /\ Operand.e[1].key \in ComparisonKeys
ComparisonKey == IF Operand.t = "object" THEN Operand.e[1].key ELSE "="
ComparisonOperand == IF Operand.t = "object" THEN Operand.e[1].val ELSE Operand

numericComparison(key, x, y) ==
    CASE key \in {"=", "equals"} -> x = y
      [] key \in {"!", "not"} -> x # y
      [] key \in {"<", "lessThan"} -> x < y
      [] key \in {"<=", "lessThanOrEqual"} -> x <= y
      [] key \in {">", "greaterThan"} -> x > y
      [] key \in {">=", "greaterThanOrEqual"} -> x >= y

\* C7: when the attribute value and the criterion value both parse as finite
\* numbers (zero included), the outcome of =, !, <, <=, >, >= is the outcome of
\* the comparison of the two numbers.
C7_NumericCoercion ==
    (Filtered /\ IsComparison /\ Len(data.e) = 1
       /\ ~Number(Get(data.e[1].val, "a")).nan
       /\ Get(data.e[1].val, "a").t \in {"number", "string"}
       /\ Get(data.e[1].val, "a") # Str(<<>>)
       /\ ~Number(ComparisonOperand).nan
       /\ ComparisonOperand.t \in {"number", "string"}
       /\ ComparisonOperand # Str(<<>>)) =>
        result = Return(IF numericComparison(ComparisonKey,
                                             Number(Get(data.e[1].val, "a")).n,
                                             Number(ComparisonOperand).n)
                        THEN data ELSE Arr(<<>>))

\* The clause is the NOT-IN filter {a: {'!': L}} or {a: {not: L}}.
IsNotIn ==
    /\ IsCombinator({"a"})
    /\ Operand.t = "object"
    /\ Len(Operand.e) = 1
    /\ Operand.e[1].key \in {"!", "not"}
    /\ isArray(Operand.e[1].val)
Blacklist == Operand.e[1].val.e

\* C8 as the spec states it: a tuple that lacks the attribute matches a NOT-IN.
C8_AbsentAttributeMatches ==
    (Filtered /\ IsNotIn) =>
        \A i \in 1..Len(data.e) :
            ~hasOwnProperty(data.e[i].val, "a") =>
                \E j \in 1..Len(result.v.e) : result.v.e[j].val = data.e[i].val

\* C8 (amended): a NOT-IN keeps exactly the tuples whose attribute is
\* normalized-equal (compare '=') to no element of L, an absent attribute being
\* compared as the empty string: a tuple that lacks the attribute matches exactly
\* when L holds none of null, '' and 0.
C8_NotInIsNoneEqual ==
    (Filtered /\ IsNotIn) =>
        /\ result = Return(Selected(LAMBDA t :
                      \A j \in 1..Len(Blacklist) : ~compare("=", Get(t, "a"), Blacklist[j].val)))
        /\ \A i \in 1..Len(data.e) :
              ~hasOwnProperty(data.e[i].val, "a") =>
                 ((\E j \in 1..Len(result.v.e) : result.v.e[j].val = data.e[i].val)
                    <=> \A j \in 1..Len(Blacklist) :
                           Blacklist[j].val \notin {Null, Str(<<>>), Num(0)})

\* A list with null drops the tuple without the attribute and keeps another.
C8_Witness ==
    /\ Filtered
    /\ IsNotIn
    /\ \E j \in 1..Len(Blacklist) : Blacklist[j].val = Null
    /\ Len(data.e) = 2
    /\ data.e[1].val = Obj(<<>>)
    /\ result = Return(Arr(<<data.e[2].val>>))

\* C10: a where clause that validateWhereClause accepts is evaluated by filter
\* without an error.
C10_AcceptedClauseNeverThrows ==
    (Filtered /\ valid = "accepted") => ~result.threw

(***************************************************************************)
(* SpecModifiers: filter by {a: M}, M a mapping of sub-attribute modifiers *)
(* of which some are not recognised.                                       *)
(***************************************************************************)
ModifierKeys == {">", "<", "equals", "foo"}
ModifierOperands == {Num(1), Num(2)}
ModifierMaps ==
    {Dict1(k, x) : k \in ModifierKeys, x \in ModifierOperands}
    \cup {Dict2(k1, x1, k2, x2) : k1 \in ModifierKeys, k2 \in ModifierKeys,
                                  x1 \in ModifierOperands, x2 \in ModifierOperands}
ModifierClauses == {Dict1("a", M) : M \in {N \in ModifierMaps : Len(N.e) = 1 \/ N.e[1].key # N.e[2].key}}

InitModifiers ==
    /\ pc = "ready"
    /\ data \in DataSets
    /\ where \in ModifierClauses
    /\ schema = Obj(<<>>)
    /\ comparator = Null
    /\ value = Undefined
    /\ matchString = Undefined
    /\ valid = "unchecked"
    /\ result = None
    /\ fields = Undefined
    /\ numToSkip = Undefined
    /\ limitTo = Undefined

SpecModifiers == InitModifiers /\ [][Next]_vars

\* The keys matchItem takes as modifiers of an attribute (lines 112-156).
RecognisedModifiers == validAttributes \cup {"=", "equal"}

\* The clause is {a: M} and the mapping M has a key that is no modifier.
HasUnknownModifier ==
    /\ IsCombinator({"a"})
    /\ Operand.t = "object"
    /\ \E i \in 1..Len(Operand.e) : Operand.e[i].key \notin RecognisedModifiers

\* C11: a criterion entry {k: M} whose mapping M has a key outside the
\* recognised modifiers aborts the evaluation of every tuple with an error,
\* whatever the other keys of M, their order, and whether they match.
C11_UnknownModifierThrows ==
    (Filtered /\ HasUnknownModifier /\ data.e # <<>>) => result.threw

(***************************************************************************)
(* SpecLiteral: filter of one tuple by {a: c} or {a: {modifier: c}}, with  *)
(* and without a schema that gives the type of a.                          *)
(***************************************************************************)
LiteralModifiers == ComparisonKeys \cup STRING_SEARCH_MODIFIERS
LiteralOperands == {Undefined, Null, Num(1), Str(<<"a">>)}
Schemas ==
    {Obj(<<>>), Dict1("a", Dict1("type", Str(<<"d", "a", "t", "e">>))),
     Dict1("a", Dict1("type", Str(<<"s", "t", "r", "i", "n", "g">>)))}

InitLiteral ==
    /\ pc = "ready"
    /\ \E t \in Tuples : data = Arr(<<t>>)
    /\ \E c \in LiteralOperands :
          where \in {Dict1("a", c)} \cup {Dict1("a", Dict1(k, c)) : k \in LiteralModifiers}
    /\ schema \in Schemas
    /\ comparator = Null
    /\ value = Undefined
    /\ matchString = Undefined
    /\ valid = "unchecked"
    /\ result = None
    /\ fields = Undefined
    /\ numToSkip = Undefined
    /\ limitTo = Undefined

SpecLiteral == InitLiteral /\ [][Next]_vars

\* The clause is {a: c} with c no mapping, or {a: {modifier: c}}.
IsLiteral ==
    /\ IsCombinator({"a"})
    /\ Operand.t = "object" => (Len(Operand.e) = 1 /\ Operand.e[1].key \in LiteralModifiers)
LiteralOperand == IF Operand.t = "object" THEN Operand.e[1].val ELSE Operand

\* C12: when the tuple lacks the attribute, or the criterion value is
\* undefined, the literal filter gives no match and raises no error, for every
\* comparison and pattern operator, with or without a schema, the type `date`
\* included.
C12_AbsentOrUndefinedIsNoMatch ==
    (Filtered /\ IsLiteral /\ Len(data.e) = 1
       /\ (~hasOwnProperty(data.e[1].val, "a") \/ isUndefined(LiteralOperand))) =>
        result = Return(Arr(<<>>))

(***************************************************************************)
(* Projection stage: select(tuples, fields).  The dictionary the caller    *)
(* passes as fields is changed by the call (delete fields['*']), so select *)
(* gives the outcome together with the caller's fields as they are after   *)
(* the call.  omit with a predicate and pick are those of lodash: new      *)
(* dictionaries, with the attributes of the tuple that are kept.           *)
(***************************************************************************)
Selection(out, fieldsAfter) == [out |-> out, fields |-> fieldsAfter]

\* The property name a string value stands for.
RECURSIVE PropertyName(_)
PropertyName(chars) == IF chars = <<>> THEN "" ELSE chars[1] \o PropertyName(Tail(chars))

\* typeof v === 'object'
typeofObject(v) == v.t \in {"object", "array", "null"}

\* reduce(fields, arrayToDict, {}): memo[attrName] = true.
RECURSIVE arrayToDict(_, _)
arrayToDict(es, memo) ==
    IF es = <<>> THEN memo
    ELSE arrayToDict(Tail(es),
                     IF hasOwnProperty(memo, PropertyName(toString(es[1].val)))
                     THEN memo
                     ELSE Obj(Append(memo.e, Entry(PropertyName(toString(es[1].val)), Bool(TRUE)))))

\* Object.keys(fields)
Keys(obj) == [i \in 1..Len(obj.e) |-> obj.e[i].key]

\* filter(Object.keys(fields), key => fields[key] === false)
fieldsToExplicitlyOmit(flds) == {flds.e[i].key : i \in {j \in 1..Len(flds.e) : flds.e[j].val = Bool(FALSE)}}

\* delete obj[key]
Delete(obj, key) == Obj(SelectSeq(obj.e, LAMBDA en : en.key # key))

\* omit(tuple, (value, attrName) => omitted.includes(attrName))
omit(tuple, omitted) == Obj(SelectSeq(tuple.e, LAMBDA en : en.key \notin omitted))

\* pick(tuple, keys): the attributes of the tuple among keys, in the order of keys.
RECURSIVE pick(_, _)
pick(tuple, keys) ==
    IF keys = <<>> THEN Obj(<<>>)
    ELSE Obj((IF hasOwnProperty(tuple, keys[1])
              THEN <<Entry(keys[1], Get(tuple, keys[1]))>> ELSE <<>>)
             \o pick(tuple, Tail(keys)).e)

\* obj[key] = val on an attribute that obj has.
Put(obj, key, val) ==
    Obj([i \in 1..Len(obj.e) |-> IF obj.e[i].key = key THEN Entry(key, val) ELSE obj.e[i]])

\* The entry i of obj with its value replaced.
PutAt(obj, i, val) == Obj([j \in 1..Len(obj.e) |-> IF j = i THEN Entry(obj.e[i].key, val) ELSE obj.e[j]])

RECURSIVE select(_, _), mapFrom(_, _, _, _, _, _), eachFrom(_, _, _)

\* The recursive step on entry i of fields, r being the selection of the
\* attribute (lines 97-104): the attribute is replaced, and the sub-select is
\* left as the nested call changed it.
Subselected(tuple, flds, i, r) ==
    IF r.out.threw THEN Selection(Throw, PutAt(flds, i, r.fields))
    ELSE eachFrom(Put(tuple, flds.e[i].key,
                      IF isArray(Get(tuple, flds.e[i].key)) THEN r.out.v ELSE r.out.v.e[1].val),
                  PutAt(flds, i, r.fields), i + 1)

\* each(fields, (subselect, attrName) => ...) from entry i on: the tuple after it.
eachFrom(tuple, flds, i) ==
    IF i > Len(flds.e) THEN Selection(Return(tuple), flds)
    ELSE IF typeofObject(flds.e[i].val) /\ isObject(Get(tuple, flds.e[i].key))
    THEN Subselected(tuple, flds, i,
                     select(IF isArray(Get(tuple, flds.e[i].key))
                            THEN Get(tuple, flds.e[i].key)
                            ELSE Arr(<<Get(tuple, flds.e[i].key)>>),
                            flds.e[i].val))
    ELSE eachFrom(tuple, flds, i + 1)

\* The tuple i is done, r being its selection: on to the next tuple.
Mapped(tuples, hasSplat, omitted, i, done, r) ==
    IF r.out.threw THEN r
    ELSE mapFrom(tuples, hasSplat, omitted, r.fields, i + 1, Append(done, Entry("", r.out.v)))

\* map(tuples, tuple => ...) from tuple i on (lines 59-110).
mapFrom(tuples, hasSplat, omitted, flds, i, done) ==
    IF i > Len(tuples.e) THEN Selection(Return(JsVal("array", 0, <<>>, done)), flds)
    ELSE Mapped(tuples, hasSplat, omitted, i, done,
                eachFrom(IF hasSplat THEN omit(tuples.e[i].val, omitted)
                         ELSE pick(tuples.e[i].val, Keys(flds)),
                         flds, 1))

\* selectDict that never takes the '*' key for the exclusion mode.
selectDictIgnoresSplat(tuples, flds) ==
    mapFrom(tuples, FALSE, fieldsToExplicitlyOmit(flds), Delete(flds, "*"), 1, <<>>)

\* Lines 49-110 on a dictionary.
selectDict(tuples, flds) ==
    mapFrom(tuples, ~falsy(Get(flds, "*")), fieldsToExplicitlyOmit(flds), Delete(flds, "*"), 1, <<>>)

\* A dictionary the caller passed is the one the call changed; the dictionary
\* made of '*' or of an array is the call's own.
CallersFields(flds, r) == IF flds.t = "object" THEN r ELSE Selection(r.out, flds)

select(tuples, flds) ==
    IF ~typeofObject(flds) /\ flds # Str(<<"*">>) THEN Selection(Return(tuples), flds)
    ELSE IF flds = Null THEN Selection(Throw, flds)
    ELSE CallersFields(flds,
            selectDict(tuples,
                       IF flds = Str(<<"*">>) THEN Obj(<<Entry("*", Bool(TRUE))>>)
                       ELSE IF isArray(flds) THEN arrayToDict(flds.e, Obj(<<>>))
                       ELSE flds))

(***************************************************************************)
(* SpecProject: select on drawn tuples and a drawn projection, called once *)
(* and then once more with the same two objects.                           *)
(***************************************************************************)
MaxProjectData == 2

Name == Str(<<"n", "a", "m", "e">>)
Pet == Dict2("name", Num(1), "age", Num(2))
ProjectTuples ==
    {Obj(<<>>), Dict1("a", Num(1)), Dict2("a", Num(1), "b", Num(2)),
     Dict2("b", Num(2), "pet", Pet), Dict2("a", Num(1), "pet", Arr(<<Pet, Dict1("age", Num(3))>>)),
     Dict1("pet", Num(1))}
ProjectData == {Arr(q) : q \in SeqsUpTo(ProjectTuples, MaxProjectData)}

Yes == Bool(TRUE)
No == Bool(FALSE)
Projections ==
    {Str(<<"*">>), Str(<<"a">>), Num(1), Yes, Undefined, Null,
     Arr(<<>>), Arr(<<Str(<<"a">>)>>), Arr(<<Str(<<"a">>), Str(<<"b">>)>>), Arr(<<Str(<<"*">>)>>),
     Obj(<<>>), Dict1("a", Yes), Dict2("a", Yes, "b", Yes), Dict2("a", No, "b", Yes),
     Dict1("b", No), Dict1("*", Yes), Dict2("*", Yes, "b", No), Dict2("b", No, "*", Yes),
     Dict2("*", Yes, "a", Yes), Dict2("*", No, "a", Yes), Dict1("pet", Yes),
     Dict1("pet", Dict1("name", Yes)), Dict1("pet", Dict2("*", Yes, "name", No)),
     Dict2("*", Yes, "pet", Dict1("name", Yes)), Dict1("pet", Arr(<<Name>>)),
     Dict1("pet", Null), Dict1("a", Null), Dict2("*", Yes, "pet", Null)}

InitProject ==
    /\ pc = "ready"
    /\ data \in ProjectData
    /\ fields \in Projections
    /\ where = Null
    /\ schema = Obj(<<>>)
    /\ comparator = Null
    /\ value = Undefined
    /\ matchString = Undefined
    /\ valid = "unchecked"
    /\ result = None
    /\ numToSkip = Undefined
    /\ limitTo = Undefined

\* The outcome of a call and the caller's fields after it.
Selects(r) ==
    /\ result' = r.out
    /\ fields' = r.fields

\* select(data, fields), and the same call once more.
Project ==
    /\ pc \in {"ready", "projected"}
    /\ pc' = IF pc = "ready" THEN "projected" ELSE "projectedAgain"
    /\ Selects(select(data, fields))
    /\ UNCHANGED <<data, where, schema, comparator, value, matchString, valid,
                   numToSkip, limitTo>>

NextProject == Project

SpecProject == InitProject /\ [][NextProject]_vars

(***************************************************************************)
(* Properties of the projection stage (SpecProject).                       *)
(***************************************************************************)
Names(t) == {t.e[i].key : i \in 1..Len(t.e)}

\* The mapping a projection stands for: '*' is {'*': true}, an array the
\* mapping of each of its elements to true.
MappingOf(spec) ==
    IF spec = Str(<<"*">>) THEN Dict1("*", Yes)
    ELSE IF isArray(spec)
    THEN Obj([i \in 1..Len(spec.e) |-> Entry(PropertyName(spec.e[i].val.s), Yes)])
    ELSE spec

IsExclusion(spec) == hasOwnProperty(spec, "*") /\ ~falsy(Get(spec, "*"))
IsInclusion(spec) == ~hasOwnProperty(spec, "*")
HasNullEntry(spec) == \E i \in 1..Len(spec.e) : spec.e[i].val = Null

\* The attribute names the mapping keeps of a tuple.
ExpectedNames(spec, t) ==
    IF IsExclusion(spec)
    THEN {k \in Names(t) : ~(hasOwnProperty(spec, k) /\ Get(spec, k) = No)}
    ELSE {k \in Names(t) : hasOwnProperty(spec, k)}

\* out is the tuple t projected on the mapping spec: the names the mode keeps,
\* each with the value it has in t unless the mapping has a sub-select for it.
IsProjection(spec, t, out) ==
    /\ Names(out) = ExpectedNames(spec, t)
    /\ \A k \in Names(out) :
          (~typeofObject(Get(spec, k)) \/ ~isObject(Get(t, k))) => Get(out, k) = Get(t, k)

FirstCall == pc = "ready" /\ pc' = "projected"

C14_StagesArePure ==
    [][/\ data' = data
       /\ where' = where
       /\ comparator' = comparator
       /\ fields' = fields
       /\ (pc = "projected" /\ pc' = "projectedAgain") => result' = result]_vars

(***************************************************************************)
(* Pagination stages: skip(data, numToSkip) and limit(data, limit).        *)
(***************************************************************************)
\* lodash toInteger on the values drawn.
toInteger(v) == IF Number(v).nan THEN 0 ELSE Number(v).n

\* The elements start+1 .. end of es, for 0 <= start and 0 <= end <= Len(es).
Sliced(es, start, end) == IF start > end THEN <<>> ELSE SubSeq(es, start + 1, end)

\* lodash baseSlice: a negative index counts from the end.
baseSlice(es, start, end) ==
    Sliced(es,
           IF start < 0 THEN (IF 0 - start > Len(es) THEN 0 ELSE Len(es) + start) ELSE start,
           IF end > Len(es) THEN Len(es) ELSE IF end < 0 THEN end + Len(es) ELSE end)

\* slice(array, start, end) of lodash; end is the length when undefined.
slice(array, start, end) ==
    IF ~isArray(array) THEN Arr(<<>>)
    ELSE JsVal("array", 0, <<>>,
               baseSlice(array.e,
                         IF start.t \in {"undefined", "null"} THEN 0 ELSE toInteger(start),
                         IF isUndefined(end) THEN Len(array.e) ELSE toInteger(end)))

\* skip that drops one tuple more than asked.
skipOneMore(tuples, n) ==
    IF falsy(n) \/ falsy(tuples) THEN tuples
    ELSE slice(tuples, Num(n.n + 1), Undefined)

skip(tuples, n) ==
    IF falsy(n) \/ falsy(tuples) THEN tuples
    ELSE slice(tuples, n, Undefined)

limit(tuples, n) ==
    IF isUndefined(n) \/ falsy(tuples) \/ n = Num(0) THEN tuples
    ELSE slice(tuples, Num(0), n)

(***************************************************************************)
(* SpecPage: limit and skip on drawn tuples, and skip on what limit gave.  *)
(***************************************************************************)
MaxPageData == 6
MaxPage == 5

RowsTo(n) == Arr([i \in 1..n |-> Dict1("id", Num(i))])
PageData == {RowsTo(n) : n \in 0..MaxPageData} \cup {Undefined, Null}
PageCounts == {Num(n) : n \in 0..MaxPage}

InitPage ==
    /\ pc = "ready"
    /\ data \in PageData
    /\ numToSkip \in PageCounts \cup {Undefined, Null}
    /\ limitTo \in PageCounts \cup {Undefined}
    /\ where = Null
    /\ schema = Obj(<<>>)
    /\ comparator = Null
    /\ value = Undefined
    /\ matchString = Undefined
    /\ valid = "unchecked"
    /\ result = None
    /\ fields = Undefined

\* limit(data, limitTo)
Limit ==
    /\ pc = "ready"
    /\ pc' = "limited"
    /\ result' = Return(limit(data, limitTo))
    /\ UNCHANGED <<data, where, schema, comparator, value, matchString, valid,
                   fields, numToSkip, limitTo>>

\* skip(data, numToSkip), or skip(limit(data, limitTo), numToSkip) after Limit.
Skip ==
    /\ pc \in {"ready", "limited"}
    /\ pc' = IF pc = "ready" THEN "skipped" ELSE "limitedSkipped"
    /\ result' = Return(skip(IF pc = "ready" THEN data ELSE result.v, numToSkip))
    /\ UNCHANGED <<data, where, schema, comparator, value, matchString, valid,
                   fields, numToSkip, limitTo>>

NextPage == Limit \/ Skip

SpecPage == InitPage /\ [][NextPage]_vars

(***************************************************************************)
(* Properties of the pagination stages (SpecPage).                         *)
(***************************************************************************)
Min(a, b) == IF a < b THEN a ELSE b

\* The first n tuples of T, and T without its first k tuples.
FirstOf(T, n) == JsVal("array", 0, <<>>, SubSeq(T.e, 1, Min(n, Len(T.e))))
RestOf(T, k) == JsVal("array", 0, <<>>, SubSeq(T.e, Min(k, Len(T.e)) + 1, Len(T.e)))

Limited(T, n) == IF isArray(T) /\ isNumber(n) /\ n.n > 0 THEN FirstOf(T, n.n) ELSE T
Skipped(T, k) == IF isArray(T) /\ isNumber(k) /\ k.n > 0 THEN RestOf(T, k.n) ELSE T

\* C15: limit(T, n) is the first min(n, |T|) tuples of T and skip(T, k) is T
\* without its first min(k, |T|) tuples, in input order; skip does nothing for
\* k zero or absent, limit nothing for n undefined or zero; an empty or absent
\* input is returned as it is; and skip(limit(T, 5), 2) is the tuples at the
\* indices 2..4 of T.
C15_Pagination ==
    /\ pc = "limited" => result = Return(Limited(data, limitTo))
    /\ pc = "skipped" => result = Return(Skipped(data, numToSkip))
    /\ pc = "limitedSkipped" => result = Return(Skipped(Limited(data, limitTo), numToSkip))
    /\ (pc = "limitedSkipped" /\ isArray(data) /\ limitTo = Num(5) /\ numToSkip = Num(2)) =>
          result.v.e = [i \in 1..(Min(5, Len(data.e)) - Min(2, Len(data.e))) |-> data.e[i + 2]]
    /\ (pc \in {"limited", "skipped", "limitedSkipped"} /\ (~isArray(data) \/ data.e = <<>>)) =>
          result = Return(data)

\* skip(limit(T, 5), 2) on six tuples gives the third, fourth and fifth.
C15_Witness ==
    /\ pc = "limitedSkipped"
    /\ Len(data.e) = 6
    /\ limitTo = Num(5)
    /\ numToSkip = Num(2)
    /\ [i \in 1..Len(result.v.e) |-> Get(result.v.e[i].val, "id").n] = <<3, 4, 5>>

(***************************************************************************)
(* The IN filter (Spec).                                                   *)
(***************************************************************************)
\* The clause is the IN filter {a: L}.
IsIn == IsCombinator({"a"}) /\ isArray(Operand)

\* C16: the IN filter {k: L} keeps exactly the tuples that have the attribute
\* k with a value normalized-equal (compare '=') to some element of L: none
\* that lacks the attribute, and none at all when L is empty; no error.
C16_InIsPresentAndSomeEqual ==
    (Filtered /\ IsIn) =>
        result = Return(Selected(LAMBDA t :
                    /\ hasOwnProperty(t, "a")
                    /\ \E j \in 1..Len(Operand.e) : compare("=", Get(t, "a"), Operand.e[j].val)))

(***************************************************************************)
(* A null sub-select (SpecProject).                                        *)
(***************************************************************************)
\* C17: with a projection entry whose value is null, select returns a result
\* and raises no error: where the attribute is a nested tuple or a sequence
\* of tuples it recurses with an empty projection, and where the attribute is
\* a scalar or absent the entry is a plain inclusion key.
C17_NullSubselectReturns ==
    [][(FirstCall /\ fields.t = "object" /\ HasNullEntry(fields)) =>
         /\ ~result'.threw
         /\ Len(result'.v.e) = Len(data.e)
         /\ \A i \in 1..Len(data.e) :
               IsProjection(fields, data.e[i].val, result'.v.e[i].val)]_vars

====
